---- MODULE Spec2Model ----
(***************************************************************************)
(* Model of examples/multi-tello-pygame.py: the VideoStreamHandler         *)
(* background thread (one per drone) and the MultiTelloFrontEnd main loop  *)
(* (connect_tellos, the pygame event loop, the compositor, cleanup).       *)
(*                                                                         *)
(* A drone is named by its position in tello_configs (1..NumDrones); the   *)
(* dicts keyed by ip (tellos, velocities, send_rc_control) are functions   *)
(* over Dev, and video_streams, whose insertion order the compositor       *)
(* enumerates, is a sequence of drones.  A call on a Tello object either   *)
(* returns or raises; which one is an input of the step that makes it.     *)
(***************************************************************************)
EXTENDS Integers, Sequences, FiniteSets, TLC

\* ---------------------------------------------------------------- constants
\* S = 60, the speed of the drone.
S == 60
\* VideoStreamHandler.max_retries.
max_retries == 3
\* The two entries of tello_configs in main().
NumDrones == 2
\* Pane size used by get_frame_position.
PaneWidth == 960
PaneHeight == 720

\* ------------------------------------------------------------------- bounds
\* Key presses of the operator in one run.
MaxPresses == 2
\* Distinct pixel contents the camera of a drone delivers.
MaxPixel == 1
\* Frame objects of one drone that can be alive at once (the decoder's
\* buffer, the thread's current_frame, the handler's frame, the frame the
\* main loop is drawing on).
MaxObj == 4

Dev == 1..NumDrones

\* self.tellos: insertion order is the order of tello_configs.
tellos == [i \in 1..NumDrones |-> i]

Range(f) == {f[i] : i \in DOMAIN f}

\* ---------------------------------------------------------------- keyboard
Axes == {"for_back_velocity", "left_right_velocity", "up_down_velocity", "yaw_velocity"}

DirKeys == {"UP", "DOWN", "LEFT", "RIGHT", "w", "s", "a", "d"}
SelectKeys == {"1", "2", "3", "4"}
\* "x" stands for every key the program has no branch for.
Keys == DirKeys \cup SelectKeys \cup {"t", "l", "ESCAPE", "x"}

\* event.key - pygame.K_1
KeyIndex(key) ==
    CASE key = "1" -> 0
      [] key = "2" -> 1
      [] key = "3" -> 2
      [] key = "4" -> 3

\* The axis a directional key drives and the two keys that share it.
AxisOf(key) ==
    CASE key \in {"UP", "DOWN"} -> "for_back_velocity"
      [] key \in {"LEFT", "RIGHT"} -> "left_right_velocity"
      [] key \in {"w", "s"} -> "up_down_velocity"
      [] key \in {"a", "d"} -> "yaw_velocity"

AxisKeys(axis) == {k \in DirKeys : AxisOf(k) = axis}

NoEvent == [type |-> "NONE", key |-> "x"]

\* What pygame.event.get() can yield: the timer event, QUIT, key events and
\* events of other types (mouse, focus), which run() ignores.
Events ==
    {[type |-> "TICK", key |-> "x"], [type |-> "QUIT", key |-> "x"],
     [type |-> "OTHER", key |-> "x"]}
    \cup [type : {"KEYDOWN", "KEYUP"}, key : Keys]

\* A key press counts against MaxPresses; the release of a key that is down
\* and the events that leave the keyboard as it is do not.
IsInput(e) == e.type = "KEYDOWN"

VARIABLES
    \* ---- main thread (MultiTelloFrontEnd.run)
    mpc,              \* position of the main thread
    mi,               \* index of the running for loop (connect, compositor, cleanup)
    selected_drone,   \* self.selected_drone
    velocities,       \* self.velocities[ip][axis]
    send_rc_control,  \* self.send_rc_control[ip], the armed flag
    should_stop,      \* should_stop of run()
    video_streams,    \* keys of self.video_streams in insertion order
    event,            \* the event the loop handled last
    mcalls,           \* the Tello calls the last main-thread step made
    mframe,           \* the frame get_frame() returned to the compositor
    screen,           \* panes blitted since the last screen.fill
    \* ---- operator
    held,             \* keys currently down
    nPresses,          \* keys pressed so far
    \* ---- VideoStreamHandler of each drone and its thread
    apc,              \* position of the thread ("none": no handler)
    stopped,          \* self.stopped
    retry_count,      \* self.retry_count
    frame,            \* self.frame: 0 is None, else a frame object
    current_frame,    \* current_frame of _update_frame
    lock,             \* self.lock: "free", "agent" or "main"
    streamoff_calls,  \* reconnect attempts (tello.streamoff() calls) of the thread
    \* ---- the decoder behind get_frame_read and the frame objects
    buf,              \* frame_read.frame: 0 is None, else a frame object
    heap              \* content of every frame object of a drone

mainVars == <<mpc, mi, selected_drone, velocities, send_rc_control, should_stop,
              video_streams, event, mcalls, mframe, screen>>
envVars == <<held, nPresses>>
agentVars == <<apc, stopped, retry_count, frame, current_frame, lock, streamoff_calls>>
frameVars == <<buf, heap>>
vars == <<mainVars, envVars, agentVars, frameVars>>

\* ------------------------------------------------------------ frame objects
Obj == 1..MaxObj
Pixels == 1..MaxPixel
\* A frame object: the decoded picture and whether text was drawn on it.
Blank == [px |-> 0, text |-> FALSE]

\* The compositor's local variable frame: a frame object of drone dev.
NoFrame == [dev |-> 0, obj |-> 0]

\* Objects of drone d some reference reaches: the decoder's buffer b, the
\* thread's current_frame c, the handler's frame f, the compositor's frame m.
Live(d, b, c, f, m) == ({b, c, f} \cup (IF m.dev = d THEN {m.obj} ELSE {})) \ {0}

\* numpy allocates a new array: an object no reference reaches.
NewObj(live) == CHOOSE o \in Obj : o \notin live /\ \A p \in Obj : p \notin live => o <= p

\* Unreachable objects are gone.
Collect(h, live) == [o \in Obj |-> IF o \in live THEN h[o] ELSE Blank]

\* ------------------------------------------------------------------ calls
Call(d, op, args, ok) == [dev |-> d, op |-> op, args |-> args, ok |-> ok]

Init ==
    /\ mpc = "connect"
    /\ mi = 1
    /\ selected_drone = tellos[1]
    /\ velocities = [d \in Dev |-> [a \in Axes |-> 0]]
    /\ send_rc_control = [d \in Dev |-> FALSE]
    /\ should_stop = FALSE
    /\ video_streams = <<>>
    /\ event = NoEvent
    /\ mcalls = <<>>
    /\ mframe = NoFrame
    /\ screen = {}
    /\ held = {}
    /\ nPresses = 0
    /\ apc = [d \in Dev |-> "none"]
    /\ stopped = [d \in Dev |-> FALSE]
    /\ retry_count = [d \in Dev |-> 0]
    /\ frame = [d \in Dev |-> 0]
    /\ current_frame = [d \in Dev |-> 0]
    /\ lock = [d \in Dev |-> "free"]
    /\ streamoff_calls = [d \in Dev |-> 0]
    /\ buf = [d \in Dev |-> 0]
    /\ heap = [d \in Dev |-> [o \in Obj |-> Blank]]

\* ------------------------------------------------ MultiTelloFrontEnd helpers
\* A call that raised: the exception leaves the code that made the call.
Raised(calls) == \E i \in 1..Len(calls) : ~calls[i].ok

\* The calls a try block makes: ops in order, up to the one that raises.
CallsUntil(d, ops, fail) ==
    LET n == IF \E i \in 1..Len(ops) : ops[i] = fail
             THEN CHOOSE i \in 1..Len(ops) : ops[i] = fail
             ELSE Len(ops)
    IN  [i \in 1..n |-> Call(d, ops[i], <<>>, ops[i] # fail)]

\* keydown with the sign of the paired key lost.
keydown_one_sign(vel, sel, key) ==
    IF key \in DirKeys THEN [vel EXCEPT ![sel][AxisOf(key)] = S] ELSE vel

\* keydown(key): velocities after the call.
keydown(vel, sel, key) ==
    CASE key = "UP" -> [vel EXCEPT ![sel]["for_back_velocity"] = S]
      [] key = "DOWN" -> [vel EXCEPT ![sel]["for_back_velocity"] = -S]
      [] key = "LEFT" -> [vel EXCEPT ![sel]["left_right_velocity"] = -S]
      [] key = "RIGHT" -> [vel EXCEPT ![sel]["left_right_velocity"] = S]
      [] key = "w" -> [vel EXCEPT ![sel]["up_down_velocity"] = S]
      [] key = "s" -> [vel EXCEPT ![sel]["up_down_velocity"] = -S]
      [] key = "a" -> [vel EXCEPT ![sel]["yaw_velocity"] = -S]
      [] key = "d" -> [vel EXCEPT ![sel]["yaw_velocity"] = S]
      [] OTHER -> vel

\* keyup(key): velocities after the call.
keyup(vel, sel, key) ==
    CASE key = "UP" \/ key = "DOWN" -> [vel EXCEPT ![sel]["for_back_velocity"] = 0]
      [] key = "LEFT" \/ key = "RIGHT" -> [vel EXCEPT ![sel]["left_right_velocity"] = 0]
      [] key = "w" \/ key = "s" -> [vel EXCEPT ![sel]["up_down_velocity"] = 0]
      [] key = "a" \/ key = "d" -> [vel EXCEPT ![sel]["yaw_velocity"] = 0]
      [] OTHER -> vel

\* keyup(key): the Tello call of the takeoff and land branches.
keyup_calls(sel, key, ok) ==
    CASE key = "t" -> <<Call(sel, "takeoff", <<>>, ok)>>
      [] key = "l" -> <<Call(sel, "land", <<>>, ok)>>
      [] OTHER -> <<>>

\* The armed flag set whether or not takeoff() returned.
armed_unconditionally(arm, sel, ok) == [arm EXCEPT ![sel] = TRUE]

\* keyup(key), takeoff branch: the assignment after takeoff() is reached
\* only when takeoff() returned.
armed_after_takeoff(arm, sel, ok) == IF ok THEN [arm EXCEPT ![sel] = TRUE] ELSE arm

\* keyup(key), land branch: the assignment after land() is reached only
\* when land() returned.
armed_after_land(arm, sel, ok) == IF ok THEN [arm EXCEPT ![sel] = FALSE] ELSE arm

\* keyup(key): send_rc_control after the call.
keyup_armed(arm, sel, key, ok) ==
    CASE key = "t" -> armed_after_takeoff(arm, sel, ok)
      [] key = "l" -> armed_after_land(arm, sel, ok)
      [] OTHER -> arm

\* update() without the test of the armed flag.
update_unarmed(arm, vel, sel, ok) ==
    <<Call(sel, "send_rc_control",
           <<vel[sel]["left_right_velocity"], vel[sel]["for_back_velocity"],
             vel[sel]["up_down_velocity"], vel[sel]["yaw_velocity"]>>, ok)>>

\* update(): the send_rc_control call it makes, if any.
update(arm, vel, sel, ok) ==
    IF sel \in DOMAIN arm /\ arm[sel]
    THEN <<Call(sel, "send_rc_control",
                <<vel[sel]["left_right_velocity"], vel[sel]["for_back_velocity"],
                  vel[sel]["up_down_velocity"], vel[sel]["yaw_velocity"]>>, ok)>>
    ELSE <<>>

\* An index past the fleet clamped to the last drone.
select_clamped(sel, key) ==
    IF KeyIndex(key) < Len(tellos) THEN tellos[KeyIndex(key) + 1] ELSE tellos[Len(tellos)]

\* An index past the fleet wrapped around.
select_wrapped(sel, key) == tellos[(KeyIndex(key) % Len(tellos)) + 1]

\* run(), keys 1..4: the selected drone after the event.
select_drone(sel, key) ==
    IF KeyIndex(key) < Len(tellos) THEN tellos[KeyIndex(key) + 1] ELSE sel

\* get_frame_position(index)
get_frame_position(index, cols) ==
    <<(index % cols) * PaneWidth, (index \div cols) * PaneHeight>>

\* self.cols
Min(a, b) == IF a < b THEN a ELSE b
cols == Min(2, NumDrones)

\* ------------------------------------------------------ main thread: run()
\* The handler created although streamon() raised.
handler_started_early(fail) == fail \in {"none", "streamon"}

\* connect_tellos(): the handler is created and started at the end of the
\* try block, so only when no call of the block raised.
handler_started(fail) == fail = "none"

\* connect_tellos(), one iteration of its for loop: the calls in the try
\* block, then the handler is created, started and stored unless one raised.
MainConnect ==
    /\ mpc = "connect"
    /\ LET d == tellos[mi]
           ops == <<"connect", "set_speed", "streamoff", "streamon">>
       IN \E fail \in Range(ops) \cup {"none"} :
            /\ mcalls' = CallsUntil(d, ops, fail)
            /\ IF handler_started(fail)
               THEN /\ video_streams' = Append(video_streams, d)
                    /\ apc' = [apc EXCEPT ![d] = "start"]
               ELSE UNCHANGED <<video_streams, apc>>
    /\ IF mi < Len(tellos)
       THEN mi' = mi + 1 /\ mpc' = "connect"
       ELSE mi' = 1 /\ mpc' = "events"
    /\ UNCHANGED <<selected_drone, velocities, send_rc_control, should_stop, event,
                   mframe, screen, envVars, stopped, retry_count, frame,
                   current_frame, lock, streamoff_calls, frameVars>>

\* The body of "for event in pygame.event.get()" for one event drawn from evs.
\* An exception of takeoff(), land() or send_rc_control() is caught nowhere:
\* it leaves keyup()/update() and run().
MainEvent(evs) ==
    /\ mpc = "events"
    /\ \E e \in evs, ok \in BOOLEAN :
        /\ IsInput(e) => nPresses < MaxPresses
        /\ e.type = "KEYDOWN" => e.key \notin held
        /\ e.type = "KEYUP" => e.key \in held
        /\ LET calls == CASE e.type = "TICK" ->
                               update(send_rc_control, velocities, selected_drone, ok)
                          [] e.type = "KEYUP" -> keyup_calls(selected_drone, e.key, ok)
                          [] OTHER -> <<>>
               toKeydown == e.type = "KEYDOWN" /\ e.key # "ESCAPE" /\ e.key \notin SelectKeys
           IN /\ event' = e
              /\ mcalls' = calls
              /\ should_stop' = (should_stop \/ e.type = "QUIT"
                                   \/ (e.type = "KEYDOWN" /\ e.key = "ESCAPE"))
              /\ selected_drone' = IF e.type = "KEYDOWN" /\ e.key \in SelectKeys
                                   THEN select_drone(selected_drone, e.key)
                                   ELSE selected_drone
              /\ velocities' = CASE toKeydown -> keydown(velocities, selected_drone, e.key)
                                 [] e.type = "KEYUP" -> keyup(velocities, selected_drone, e.key)
                                 [] OTHER -> velocities
              /\ send_rc_control' = IF e.type = "KEYUP"
                                    THEN keyup_armed(send_rc_control, selected_drone, e.key, ok)
                                    ELSE send_rc_control
              /\ mpc' = IF Raised(calls) THEN "crashed" ELSE "events"
              /\ held' = CASE e.type = "KEYDOWN" -> held \cup {e.key}
                           [] e.type = "KEYUP" -> held \ {e.key}
                           [] OTHER -> held
              /\ nPresses' = IF IsInput(e) THEN nPresses + 1 ELSE nPresses
    /\ UNCHANGED <<mi, video_streams, mframe, screen, agentVars, frameVars>>

\* The for loop over the events ends: screen.fill, then the compositor.
MainFill ==
    /\ mpc = "events"
    /\ mpc' = "compose"
    /\ mi' = 1
    /\ screen' = {}
    /\ mcalls' = <<>>
    /\ UNCHANGED <<selected_drone, velocities, send_rc_control, should_stop,
                   video_streams, event, mframe, envVars, agentVars, frameVars>>

\* The compositor fetching from a handler whatever its flag.
handler_never_skipped(st) == FALSE

\* "if stream_handler.stopped: continue".
handler_skipped(st) == st

\* The compositor's for loop reaches its next handler, or ends: a stopped
\* handler is skipped; display.update and sleep end the iteration of the
\* main loop, which goes on unless should_stop.
MainCompose ==
    /\ mpc = "compose"
    /\ IF mi > Len(video_streams)
       THEN /\ mpc' = IF should_stop THEN "cleanup" ELSE "events"
            /\ mi' = 1
       ELSE IF handler_skipped(stopped[video_streams[mi]])
            THEN mpc' = "compose" /\ mi' = mi + 1
            ELSE mpc' = "gf_lock" /\ mi' = mi
    /\ mframe' = NoFrame
    /\ heap' = [d \in Dev |->
                   Collect(heap[d], Live(d, buf[d], current_frame[d], frame[d], NoFrame))]
    /\ mcalls' = <<>>
    /\ UNCHANGED <<selected_drone, velocities, send_rc_control, should_stop,
                   video_streams, event, screen, envVars, agentVars, buf>>

\* The lock acquired and not released.
release_skipped(holder) == holder

\* The end of a "with self.lock" block releases the lock.
release(holder) == "free"

\* get_frame(): "with self.lock" acquires the lock.
MainGetFrameLock ==
    /\ mpc = "gf_lock"
    /\ lock[video_streams[mi]] = "free"
    /\ lock' = [lock EXCEPT ![video_streams[mi]] = "main"]
    /\ mpc' = "gf_copy"
    /\ mcalls' = <<>>
    /\ UNCHANGED <<mi, selected_drone, velocities, send_rc_control, should_stop,
                   video_streams, event, mframe, screen, envVars, apc, stopped,
                   retry_count, frame, current_frame, streamoff_calls, frameVars>>

\* get_frame() returning self.frame itself.
get_frame_uncopied(slot, new) == slot

\* get_frame(): what it returns, given self.frame and a new object.
get_frame(slot, new) == IF slot # 0 THEN new ELSE 0

\* draw_drone_info(frame, ...): cv2.putText writes on the frame it is given.
draw_drone_info(h, o) == [h EXCEPT ![o].text = TRUE]

\* get_frame() returns and releases the lock; for a frame, get_battery (an
\* exception gives 0), draw_drone_info, get_frame_position and blit.
MainGetFrame ==
    /\ mpc = "gf_copy"
    /\ LET d == video_streams[mi]
           new == NewObj(Live(d, buf[d], current_frame[d], frame[d], NoFrame))
           got == get_frame(frame[d], new)
           copied == IF got = new THEN [heap[d] EXCEPT ![new] = heap[d][frame[d]]]
                     ELSE heap[d]
       IN /\ lock' = [lock EXCEPT ![d] = release(lock[d])]
          /\ IF got = 0
             THEN /\ mframe' = NoFrame
                  /\ mcalls' = <<>>
                  /\ UNCHANGED <<heap, screen>>
             ELSE /\ mframe' = [dev |-> d, obj |-> got]
                  /\ \E ok \in BOOLEAN : mcalls' = <<Call(d, "get_battery", <<>>, ok)>>
                  /\ heap' = [heap EXCEPT ![d] = draw_drone_info(copied, got)]
                  /\ screen' = screen \cup
                        {[dev |-> d, pos |-> get_frame_position(mi - 1, cols)]}
    /\ mpc' = "compose"
    /\ mi' = mi + 1
    /\ UNCHANGED <<selected_drone, velocities, send_rc_control, should_stop,
                   video_streams, event, envVars, apc, stopped, retry_count, frame,
                   current_frame, streamoff_calls, buf>>

\* The exception of a teardown call leaving cleanup().
after_cleanup_uncaught(calls, i) ==
    IF Raised(calls) THEN "crashed" ELSE IF i < Len(tellos) THEN "cleanup" ELSE "done"

\* cleanup(): the except branch catches what the try block raises, so the
\* for loop goes on with the next drone, and run() returns after the last.
after_cleanup(calls, i) == IF i < Len(tellos) THEN "cleanup" ELSE "done"

\* cleanup(), one iteration of its for loop: stop() of the handler if there
\* is one, then land() if armed, streamoff() and end(), up to the first that
\* raises. After the last drone run() returns.
MainCleanup ==
    /\ mpc = "cleanup"
    /\ LET d == tellos[mi]
           ops == (IF send_rc_control[d] THEN <<"land">> ELSE <<>>) \o <<"streamoff", "end">>
       IN /\ \E fail \in Range(ops) \cup {"none"} :
               /\ mcalls' = CallsUntil(d, ops, fail)
               /\ mpc' = after_cleanup(CallsUntil(d, ops, fail), mi)
          /\ stopped' = IF d \in Range(video_streams)
                        THEN [stopped EXCEPT ![d] = TRUE] ELSE stopped
    /\ mi' = IF mi < Len(tellos) THEN mi + 1 ELSE 1
    /\ UNCHANGED <<selected_drone, velocities, send_rc_control, should_stop,
                   video_streams, event, mframe, screen, envVars, apc, retry_count,
                   frame, current_frame, lock, streamoff_calls,
                   frameVars>>

\* ------------------------------------- VideoStreamHandler._update_frame
\* main() returns when run() returns or raises, and the daemon threads end
\* with the process.
Running == mpc \notin {"done", "crashed"}

\* The comparison off by one: giving up on the max_retries-th fault.
retries_exceeded_early(rc) == rc >= max_retries

\* A fault that is not counted.
retry_not_counted(rc) == rc

\* The except branch: retry_count += 1, and the comparison with max_retries
\* decides between giving up and the backoff sleep.
retry_after_fault(rc) == rc + 1
retries_exceeded(rc) == rc > max_retries

\* An exception of get_frame_read() or of frame_read.frame reaches the
\* except branch.
Fault(d) ==
    /\ retry_count' = [retry_count EXCEPT ![d] = retry_after_fault(retry_count[d])]
    /\ IF retries_exceeded(retry_after_fault(retry_count[d]))
       THEN /\ stopped' = [stopped EXCEPT ![d] = TRUE]
            /\ apc' = [apc EXCEPT ![d] = "exit"]
       ELSE /\ apc' = [apc EXCEPT ![d] = "backoff"]
            /\ UNCHANGED stopped

\* A loop that does not look at the flag.
loop_unconditional(st) == TRUE

\* "while not self.stopped", the condition of the outer and the inner loop.
loop_goes_on(st) == ~st

\* "while not self.stopped" of the outer loop, then get_frame_read().
AgentOpen(d) ==
    /\ Running
    /\ apc[d] = "start"
    /\ IF ~loop_goes_on(stopped[d])
       THEN /\ apc' = [apc EXCEPT ![d] = "exit"]
            /\ UNCHANGED <<stopped, retry_count>>
       ELSE \E ok \in BOOLEAN :
              IF ok
              THEN /\ apc' = [apc EXCEPT ![d] = "inner"]
                   /\ UNCHANGED <<stopped, retry_count>>
              ELSE Fault(d)
    /\ UNCHANGED <<mainVars, envVars, frame, current_frame, lock, streamoff_calls, frameVars>>

\* "while not self.stopped" of the inner loop, then current_frame =
\* frame_read.frame; for None the thread sleeps and comes back here.
AgentRead(d) ==
    /\ Running
    /\ apc[d] = "inner"
    /\ IF ~loop_goes_on(stopped[d])
       THEN /\ apc' = [apc EXCEPT ![d] = "start"]
            /\ UNCHANGED <<stopped, retry_count, current_frame>>
       ELSE \E ok \in BOOLEAN :
              IF ok
              THEN /\ current_frame' = [current_frame EXCEPT ![d] = buf[d]]
                   /\ apc' = [apc EXCEPT ![d] = IF buf[d] # 0 THEN "lock" ELSE "inner"]
                   /\ UNCHANGED <<stopped, retry_count>>
              ELSE Fault(d) /\ UNCHANGED current_frame
    /\ UNCHANGED <<mainVars, envVars, frame, lock, streamoff_calls,
                   frameVars>>

\* "with self.lock" acquires the lock.
AgentLock(d) ==
    /\ Running
    /\ apc[d] = "lock"
    /\ lock[d] = "free"
    /\ lock' = [lock EXCEPT ![d] = "agent"]
    /\ apc' = [apc EXCEPT ![d] = "copy"]
    /\ UNCHANGED <<mainVars, envVars, stopped, retry_count, frame, current_frame,
                   streamoff_calls, frameVars>>

\* self.frame = current_frame.copy(): the object the handler keeps.
stored_frame(cur, new) == new

\* The assignment under the lock, the release, and the sleep of 1/FPS.
AgentStore(d) ==
    /\ Running
    /\ apc[d] = "copy"
    /\ LET new == NewObj(Live(d, buf[d], current_frame[d], 0, mframe))
           kept == stored_frame(current_frame[d], new)
           copied == [heap[d] EXCEPT ![new] = heap[d][current_frame[d]]]
       IN /\ frame' = [frame EXCEPT ![d] = kept]
          /\ heap' = [heap EXCEPT ![d] = Collect(copied, Live(d, buf[d], 0, kept, mframe))]
    /\ current_frame' = [current_frame EXCEPT ![d] = 0]
    /\ lock' = [lock EXCEPT ![d] = release(lock[d])]
    /\ apc' = [apc EXCEPT ![d] = "inner"]
    /\ UNCHANGED <<mainVars, envVars, stopped, retry_count, streamoff_calls, buf>>

\* After time.sleep(retry_delay): tello.streamoff(); an exception skips
\* streamon() and is swallowed.
AgentStreamoff(d) ==
    /\ Running
    /\ apc[d] = "backoff"
    /\ streamoff_calls' = [streamoff_calls EXCEPT ![d] = @ + 1]
    /\ \E ok \in BOOLEAN : apc' = [apc EXCEPT ![d] = IF ok THEN "streamon" ELSE "start"]
    /\ UNCHANGED <<mainVars, envVars, stopped, retry_count, frame, current_frame, lock, frameVars>>

\* tello.streamon(); whether it raises or not the outer loop goes on.
AgentStreamon(d) ==
    /\ Running
    /\ apc[d] = "streamon"
    /\ apc' = [apc EXCEPT ![d] = "start"]
    /\ UNCHANGED <<mainVars, envVars, stopped, retry_count, frame, current_frame, lock,
                   streamoff_calls, frameVars>>

\* The decoder thread behind get_frame_read() publishes a newly decoded
\* picture as a new array. Only the read of frame_read.frame in the inner
\* loop sees the buffer, so the pictures decoded between two reads are
\* represented by the last one.
Decode(d, pictures) ==
    /\ Running
    /\ apc[d] = "inner"
    /\ \E p \in pictures :
         LET new == NewObj(Live(d, 0, current_frame[d], frame[d], mframe))
             made == [heap[d] EXCEPT ![new] = [px |-> p, text |-> FALSE]]
         IN /\ buf' = [buf EXCEPT ![d] = new]
            /\ heap' = [heap EXCEPT ![d] =
                           Collect(made, Live(d, new, current_frame[d], frame[d], mframe))]
    /\ UNCHANGED <<mainVars, envVars, agentVars>>

Camera(d) == Decode(d, Pixels)

Agent(d) ==
    \/ AgentOpen(d)
    \/ AgentRead(d)
    \/ AgentLock(d)
    \/ AgentStore(d)
    \/ AgentStreamoff(d)
    \/ AgentStreamon(d)

\* The operator at the keyboard and the timer: the main thread alone, the
\* handler threads not yet scheduled. No thread writes what the main thread
\* reads in its event handling.
Next ==
    \/ MainConnect
    \/ MainEvent(Events)
    \/ MainFill
    \/ MainCompose
    \/ MainGetFrameLock
    \/ MainGetFrame
    \/ MainCleanup

Spec == Init /\ [][Next]_vars

\* The threads: the handler threads and the decoders run with the main
\* thread, whose operator only closes the window.
QuitEvents == {e \in Events : e.type = "QUIT"}

NextAgent ==
    \/ MainConnect
    \/ MainEvent(QuitEvents)
    \/ MainFill
    \/ MainCompose
    \/ MainGetFrameLock
    \/ MainGetFrame
    \/ MainCleanup
    \/ \E d \in Dev : Agent(d)
    \/ \E d \in Dev : Camera(d)

SpecAgent == Init /\ [][NextAgent]_vars

\* The threads under a fair scheduler: a handler thread that can take a
\* step takes one, which is every call and every sleep of _update_frame
\* returning or raising. Nothing is assumed of the main thread, which may
\* stay in a call of a drone as long as that takes, nor of the decoders.
\* What the pictures show plays no part in where a thread goes, so here
\* the decoders publish one picture over and over.
NextAgentFair ==
    \/ MainConnect
    \/ MainEvent(QuitEvents)
    \/ MainFill
    \/ MainCompose
    \/ MainGetFrameLock
    \/ MainGetFrame
    \/ MainCleanup
    \/ \E d \in Dev : Agent(d)
    \/ \E d \in Dev : Decode(d, {CHOOSE p \in Pixels : TRUE})

SpecAgentFair == Init /\ [][NextAgentFair]_vars /\ \A d \in Dev : WF_vars(Agent(d))

\* ------------------------------------------------------------- properties
\* The step in which run() handles a press, or a release, of key k.
KeyDownStep(k) ==
    /\ mpc = "events"
    /\ k \notin held /\ held' = held \cup {k}
    /\ event' = [type |-> "KEYDOWN", key |-> k]

KeyUpStep(k) ==
    /\ mpc = "events"
    /\ k \in held /\ held' = held \ {k}
    /\ event' = [type |-> "KEYUP", key |-> k]

\* The four values update() passes to send_rc_control for drone d.
AxisValues(d) ==
    <<velocities[d]["left_right_velocity"], velocities[d]["for_back_velocity"],
      velocities[d]["up_down_velocity"], velocities[d]["yaw_velocity"]>>

\* C1: every channel fault adds exactly 1 to retry_count; while retry_count
\* <= max_retries the thread goes to its backoff and from there makes one
\* reconnect attempt (the streamoff call, then streamon when streamoff
\* returned), so the attempts made equal the faults handled; the fault
\* number max_retries + 1 sets stopped and ends the thread, after which it
\* makes no streamoff/streamon call and stores no frame.
C1_RetryThenStop ==
    /\ [](\A d \in Dev :
            /\ retry_count[d] <= max_retries + 1
            /\ streamoff_calls[d] = IF apc[d] = "backoff" THEN retry_count[d] - 1
                                    ELSE Min(retry_count[d], max_retries)
            /\ apc[d] = "streamon" => streamoff_calls[d] = retry_count[d]
            /\ retry_count[d] > max_retries => stopped[d] /\ apc[d] = "exit")
    /\ [][\A d \in Dev :
            /\ retry_count'[d] # retry_count[d] =>
                 /\ retry_count'[d] = retry_count[d] + 1
                 /\ apc'[d] = IF retry_count'[d] <= max_retries THEN "backoff" ELSE "exit"
            /\ (apc[d] = "backoff" /\ apc'[d] # "backoff") =>
                 /\ streamoff_calls'[d] = streamoff_calls[d] + 1
                 /\ apc'[d] \in {"streamon", "start"}
            /\ apc[d] = "exit" =>
                 /\ apc'[d] = "exit"
                 /\ streamoff_calls'[d] = streamoff_calls[d]
                 /\ frame'[d] = frame[d]
                 /\ frame[d] # 0 => heap'[d][frame[d]] = heap[d][frame[d]]]_vars

\* C1 witness: a thread that gave up on its 4th fault after 3 reconnect attempts.
C1_Witness ==
    \E d \in Dev : /\ retry_count[d] = max_retries + 1
                   /\ stopped[d] /\ apc[d] = "exit"
                   /\ streamoff_calls[d] = max_retries

\* C2: the handler's frame is an object of its own (not the decoder's
\* buffer, not the thread's current_frame, not the frame returned to the
\* compositor), the text the compositor draws on a returned frame never
\* shows in the handler's frame, and get_frame() returns None exactly when
\* the handler's frame is None and otherwise a new object with the
\* picture of the handler's frame, leaving the handler's frame as it was.
C2_NoAlias ==
    /\ [](\A d \in Dev :
            /\ frame[d] # 0 =>
                 /\ frame[d] # buf[d] /\ frame[d] # current_frame[d]
                 /\ heap[d][frame[d]].px \in Pixels
                 /\ ~heap[d][frame[d]].text
            /\ mframe.dev = d => mframe.obj \notin {frame[d], buf[d], current_frame[d]})
    /\ [][(mpc = "gf_copy" /\ mpc' # "gf_copy") =>
            LET d == video_streams[mi]
            IN /\ (mframe' = NoFrame) <=> (frame[d] = 0)
               /\ frame'[d] = frame[d]
               /\ frame[d] # 0 =>
                    /\ mframe'.dev = d
                    /\ heap'[d][mframe'.obj].px = heap[d][frame[d]].px
                    /\ heap'[d][frame[d]] = heap[d][frame[d]]]_vars

\* C2 witness: text was drawn on a returned frame and the handler's frame
\* shows none.
C2_Witness ==
    /\ mframe # NoFrame
    /\ heap[mframe.dev][mframe.obj].text
    /\ frame[mframe.dev] # 0
    /\ ~heap[mframe.dev][frame[mframe.dev]].text

\* C3: a press of a directional key sets its axis of the selected drone to
\* +S (UP, RIGHT, w, d) or -S (DOWN, LEFT, s, a) and changes no other axis of
\* any drone; a release of either key of the pair sets that axis to 0.
C3_AxisKeys ==
    [][\A k \in DirKeys :
         /\ KeyDownStep(k) =>
              /\ velocities'[selected_drone][AxisOf(k)] =
                    IF k \in {"UP", "RIGHT", "w", "d"} THEN S ELSE -S
              /\ \A d \in Dev, a \in Axes :
                    (d # selected_drone \/ a # AxisOf(k)) =>
                        velocities'[d][a] = velocities[d][a]
         /\ KeyUpStep(k) => velocities'[selected_drone][AxisOf(k)] = 0]_vars

\* C3 witness: LEFT released while RIGHT, pressed after it, is still down;
\* the axis RIGHT had set is 0.
C3_Witness ==
    /\ event = [type |-> "KEYUP", key |-> "LEFT"]
    /\ "RIGHT" \in held
    /\ velocities[selected_drone]["left_right_velocity"] = 0

\* C4: a drone has a nonzero axis only if it is the selected drone and a key
\* of that axis is down.
C4_NonzeroOnlySelectedHeld ==
    \A d \in Dev, a \in Axes :
        velocities[d][a] # 0 => d = selected_drone /\ held \cap AxisKeys(a) # {}

\* C5: the selected drone is always a registered drone; it is the first one
\* at the start and changes only by a press of a select key whose index is
\* within the fleet.
C5_SelectedMember ==
    /\ selected_drone = tellos[1]
    /\ [](selected_drone \in Range(tellos))
    /\ [][selected_drone' # selected_drone =>
            \E k \in SelectKeys : /\ KeyDownStep(k)
                                  /\ KeyIndex(k) < Len(tellos)
                                  /\ selected_drone' = tellos[KeyIndex(k) + 1]]_vars

\* C5 witness: key 2 pressed, the second drone selected.
C5_Witness ==
    /\ event = [type |-> "KEYDOWN", key |-> "2"]
    /\ selected_drone = tellos[2]
    /\ selected_drone # tellos[1]

\* C6: a press of select key N selects the N-th drone when N is within the
\* fleet and leaves the selection otherwise; it changes no velocity and no
\* armed flag and makes no Tello call.
C6_SelectFrame ==
    [][\A k \in SelectKeys :
         KeyDownStep(k) =>
            /\ selected_drone' = IF KeyIndex(k) < Len(tellos)
                                 THEN tellos[KeyIndex(k) + 1] ELSE selected_drone
            /\ velocities' = velocities
            /\ send_rc_control' = send_rc_control
            /\ mcalls' = <<>>]_vars

\* C6 witness: key 3, past the fleet, pressed while a velocity is nonzero.
C6_Witness ==
    /\ event = [type |-> "KEYDOWN", key |-> "3"]
    /\ mpc = "events"
    /\ \E a \in Axes : velocities[selected_drone][a] # 0

\* C7: a send_rc_control call is made only by a timer tick, alone, to the
\* selected drone, whose armed flag is set, with its four axis values.
C7_TickTarget ==
    \A i \in 1..Len(mcalls) :
        mcalls[i].op = "send_rc_control" =>
            /\ event.type = "TICK"
            /\ Len(mcalls) = 1
            /\ mcalls[i].dev = selected_drone
            /\ send_rc_control[mcalls[i].dev]
            /\ mcalls[i].args = AxisValues(selected_drone)

\* C7 witness: a tick sent the forward speed S to the armed selected drone.
C7_Witness ==
    /\ Len(mcalls) = 1
    /\ mcalls[1].op = "send_rc_control"
    /\ mcalls[1].args[2] = S

\* C8: the armed flag of a drone becomes true only in the release of t with
\* that drone selected and takeoff() returned; when takeoff() raises no
\* armed flag changes, and send_rc_control is sent to armed drones only.
C8_ArmedByTakeoff ==
    /\ [][/\ \A d \in Dev :
               (send_rc_control'[d] /\ ~send_rc_control[d]) =>
                   /\ KeyUpStep("t")
                   /\ selected_drone = d
                   /\ mcalls' = <<Call(d, "takeoff", <<>>, TRUE)>>
          /\ (KeyUpStep("t") /\ Raised(mcalls')) =>
               send_rc_control' = send_rc_control]_vars
    /\ [](\A i \in 1..Len(mcalls) :
            mcalls[i].op = "send_rc_control" => send_rc_control[mcalls[i].dev])

\* C8 witness: takeoff() raised and the drone is not armed.
C8_Witness ==
    /\ event = [type |-> "KEYUP", key |-> "t"]
    /\ mcalls = <<Call(selected_drone, "takeoff", <<>>, FALSE)>>
    /\ ~send_rc_control[selected_drone]

\* C9: once the release of l was handled, the selected drone is not armed,
\* whether land() returned or raised.
C9_LandDisarms ==
    (mpc \in {"events", "crashed"} /\ event = [type |-> "KEYUP", key |-> "l"]) =>
        ~send_rc_control[selected_drone]

\* C10: the main loop is left only after a quit event or a press of ESCAPE,
\* never by an exception of a Tello call.
C10_OnlyQuitEndsLoop ==
    /\ mpc # "crashed"
    /\ mpc \in {"cleanup", "done"} => should_stop

\* How often cleanup() has been entered: it is called in one place, after
\* the while loop of run().
CleanupRuns == IF mpc \in {"cleanup", "done"} THEN 1 ELSE 0

\* The step of cleanup() for one drone, and the drone it is for.
CleanupStep == mpc = "cleanup" /\ (mpc' # "cleanup" \/ mi' # mi)

\* The step of connect_tellos() for one drone.
ConnectStep == mpc = "connect" /\ (mpc' # "connect" \/ mi' # mi)

\* The calls of the last step hold a call of op on drone d.
Called(d, op) == \E i \in 1..Len(mcalls) : mcalls[i].dev = d /\ mcalls[i].op = op

\* C11: when run() is over, cleanup() has been executed exactly once; it is
\* never running while the main loop is.
C11_CleanupOnce ==
    /\ mpc \in {"done", "crashed"} => CleanupRuns = 1
    /\ mpc \in {"events", "compose", "gf_lock", "gf_copy"} => CleanupRuns = 0

\* C12: the step of cleanup() for a drone asks its handler, if it has one,
\* to stop and attempts its first teardown call, whatever the step for the
\* drone before it raised; it goes on to the next drone, or ends run(), and
\* never lets an exception out.
C12_CleanupVisitsAll ==
    [][CleanupStep =>
         /\ tellos[mi] \in Range(video_streams) => stopped'[tellos[mi]]
         /\ Len(mcalls') >= 1
         /\ mcalls'[1].dev = tellos[mi]
         /\ mcalls'[1].op = IF send_rc_control[tellos[mi]] THEN "land" ELSE "streamoff"
         /\ IF mi < Len(tellos)
            THEN mpc' = "cleanup" /\ mi' = mi + 1
            ELSE mpc' = "done"]_vars

\* C12 witness: the teardown of the first drone raised and cleanup() is at
\* the second drone.
C12_Witness ==
    /\ mpc = "cleanup"
    /\ mi = 2
    /\ Raised(mcalls)
    /\ mcalls[1].dev = tellos[1]

\* C13: the step of connect_tellos() for a drone attempts connect() on it
\* whatever the steps before it raised and goes on to the next drone; the
\* drone gets a started handler exactly when its four calls returned, so
\* the drones with a handler are those whose own calls all returned, in the
\* order of registration.
C13_ConnectIsolated ==
    /\ [][ConnectStep =>
            LET d == tellos[mi]
                allOk == Len(mcalls') = 4 /\ ~Raised(mcalls')
            IN /\ mcalls'[1] \in {Call(d, "connect", <<>>, TRUE), Call(d, "connect", <<>>, FALSE)}
               /\ \A i \in 1..Len(mcalls') : mcalls'[i].dev = d
               /\ Raised(mcalls') <=> ~mcalls'[Len(mcalls')].ok
               /\ video_streams' = IF allOk THEN Append(video_streams, d) ELSE video_streams
               /\ apc'[d] = IF allOk THEN "start" ELSE "none"
               /\ IF mi < Len(tellos)
                  THEN mpc' = "connect" /\ mi' = mi + 1
                  ELSE mpc' = "events"]_vars
    /\ [](\A d \in Dev : d \in Range(video_streams) <=> apc[d] # "none")

\* C13 witness: the first drone failed to connect and the second one has a
\* started handler.
C13_Witness ==
    /\ mpc = "events"
    /\ video_streams = <<tellos[2]>>
    /\ apc[tellos[1]] = "none"
    /\ apc[tellos[2]] = "start"

\* C16: the step of cleanup() for a drone calls streamoff() and end() on it.
C16_TeardownComplete ==
    \A d \in Dev :
        (mpc = "done" /\ d = tellos[Len(tellos)]) \/ (mpc = "cleanup" /\ mi > 1 /\ d = tellos[mi - 1])
            => Called(d, "streamoff") /\ Called(d, "end")

\* The index of drone d in the order of registration, from 0.
RegistrationIndex(d) == (CHOOSE i \in 1..Len(tellos) : tellos[i] = d) - 1

\* C14: every pane on the screen is at the grid cell of its drone's
\* registration index i: column i mod cols, row i div cols, in steps of
\* 960 by 720.
C14_PaneAtRegistrationIndex ==
    \A p \in screen :
        LET i == RegistrationIndex(p.dev)
        IN p.pos = <<(i % Min(2, NumDrones)) * 960, (i \div Min(2, NumDrones)) * 720>>

\* The compositor looks at the flag of its next handler.
ComposeStep == mpc = "compose" /\ mi <= Len(video_streams) /\ (mpc' # "compose" \/ mi' # mi)

\* The handler thread of drone d meets the fault that exhausts its retries.
Exhausts(d) == retry_count[d] <= max_retries /\ retry_count'[d] > max_retries

\* C15: a handler that exhausted its retries stays stopped; whenever the
\* compositor comes to a stopped handler it passes on without fetching or
\* placing anything, and whenever it comes to a running one it fetches its
\* frame and, if there is one, places a copy of the latest on the screen;
\* the step in which a thread exhausts its retries changes nothing of
\* another handler and nothing of the main thread.
C15_StoppedSkippedOthersServed ==
    /\ [](\A d \in Dev : retry_count[d] > max_retries => stopped[d] /\ apc[d] = "exit")
    /\ [][ComposeStep =>
            LET d == video_streams[mi]
            IN IF stopped[d]
               THEN /\ mpc' = "compose" /\ mi' = mi + 1
                    /\ screen' = screen /\ lock' = lock /\ mframe' = NoFrame
               ELSE mpc' = "gf_lock" /\ mi' = mi]_vars
    /\ [][(mpc = "gf_copy" /\ mpc' # "gf_copy") =>
            LET d == video_streams[mi]
            IN frame[d] # 0 =>
                 /\ \E p \in screen' : p.dev = d
                 /\ mframe'.dev = d
                 /\ heap'[d][mframe'.obj].px = heap[d][frame[d]].px]_vars
    /\ [][\A d \in Dev : Exhausts(d) =>
            /\ \A e \in Dev \ {d} :
                 /\ apc'[e] = apc[e] /\ stopped'[e] = stopped[e]
                 /\ retry_count'[e] = retry_count[e] /\ frame'[e] = frame[e]
                 /\ current_frame'[e] = current_frame[e] /\ lock'[e] = lock[e]
                 /\ streamoff_calls'[e] = streamoff_calls[e]
                 /\ buf'[e] = buf[e] /\ heap'[e] = heap[e]
            /\ UNCHANGED mainVars]_vars

\* C15 witness: in one presentation frame the compositor has passed the
\* handler that exhausted its retries and placed the frame of the other.
C15_Witness ==
    /\ mpc = "compose"
    /\ mi = 3
    /\ video_streams = <<tellos[1], tellos[2]>>
    /\ retry_count[tellos[1]] > max_retries
    /\ ~stopped[tellos[2]]
    /\ {p.dev : p \in screen} = {tellos[2]}

C19_RetryCountMonotone ==
    /\ [][\A d \in Dev :
            /\ retry_count'[d] >= retry_count[d]
            /\ retry_count'[d] <= retry_count[d] + 1
            /\ apc[d] \in {"lock", "copy", "backoff", "streamon"} => retry_count'[d] = retry_count[d]
            /\ apc'[d] \in {"inner", "lock"} => retry_count'[d] = retry_count[d]
            /\ retry_count[d] > max_retries => apc'[d] = "exit" /\ stopped'[d]]_vars
    /\ [](\A d \in Dev :
            /\ streamoff_calls[d] <= max_retries
            /\ streamoff_calls[d] <= retry_count[d]
            /\ retry_count[d] <= max_retries + 1)

\* C19 witness: a thread that stored a frame and made max_retries reconnect
\* attempts has stopped on its next fault.
C19_Witness ==
    \E d \in Dev :
        /\ frame[d] # 0
        /\ streamoff_calls[d] = max_retries
        /\ retry_count[d] = max_retries + 1
        /\ stopped[d]

\* cleanup() has just finished with drone d: stop() of its handler, then
\* streamoff() and end() were called.
CleanedUp(d) ==
    /\ mpc = "cleanup"
    /\ mi > 1
    /\ tellos[mi - 1] = d
    /\ d \in Range(video_streams)
    /\ stopped[d]
    /\ Called(d, "streamoff")
    /\ Called(d, "end")

\* C20: once cleanup() has finished with a drone, the thread of its handler
\* calls neither streamoff() nor streamon().
C20_NoCallAfterCleanup ==
    [][\A d \in Dev :
         CleanedUp(d) => ~(apc[d] \in {"backoff", "streamon"} /\ apc'[d] # apc[d])]_vars

\* C18: stop() sets the flag of the handler and nothing else of it, and is
\* taken wherever the thread is; a flag that is set stays set; and a thread
\* whose flag is set reaches the end of _update_frame, unless the process
\* ends before it gets there.
C18_StopThenExit ==
    /\ [][\A d \in Dev : stopped[d] => stopped'[d]]_vars
    /\ [][CleanupStep /\ tellos[mi] \in Range(video_streams) =>
            /\ stopped'[tellos[mi]]
            /\ apc' = apc /\ lock' = lock /\ retry_count' = retry_count
            /\ frame' = frame /\ current_frame' = current_frame
            /\ streamoff_calls' = streamoff_calls]_vars
    /\ \A d \in Dev : stopped[d] ~> (apc[d] = "exit" \/ ~Running)

\* C18 witness: a thread that was in its backoff sleep or in a call when
\* stop() came has exited, without having exhausted its retries, while the
\* main thread is still in cleanup().
C18_Witness ==
    \E d \in Dev :
        /\ stopped[d]
        /\ apc[d] = "exit"
        /\ retry_count[d] <= max_retries
        /\ streamoff_calls[d] = retry_count[d]
        /\ retry_count[d] > 0
        /\ Running

====
